---- MODULE Spec2Model ----
(***************************************************************************)
(* Two Arduino weather-station sketches.                                   *)
(*   variant "A": the serial sketch (src/unnamed/part_000), which blocks   *)
(*                in delay(5000) and prints T=..,H=..,P=..,R=.. lines;     *)
(*   variant "B": the display sketch (src/weather_station.ino), which      *)
(*                polls millis(), draws the OLED and prints JSON.          *)
(* One device runs one sketch; `variant` says which.  Both sketches name   *)
(* their handlers setup() and loop(), so the actions carry the variant as  *)
(* a suffix: setupA, loopA, setupB, loopB.                                  *)
(*                                                                         *)
(* Number representations                                                  *)
(*   - unsigned long (millis, lastRead): 32 bits, kept as two 16-bit limbs *)
(*     [hi, lo] with value hi * 65536 + lo, all arithmetic modulo 2^32;    *)
(*   - DHT readings (float): [nan |-> BOOLEAN, v |-> tenths];              *)
(*   - pressure in hPa (float): the single-precision quotient, kept as its *)
(*     integer multiple of 2^-14 hPa (the spacing of floats in             *)
(*     [512, 1024) hPa);                                                   *)
(*   - altitude (float): centimetres;                                      *)
(*   - printed numbers: [kind, ip, fr, nd] = integer part, fraction as an  *)
(*     integer of nd decimal digits ("1013.25" is ip 1013, fr 25, nd 2).   *)
(*     String(float, n) and Serial.print(float) round to the nearest value *)
(*     of n decimals, a tie upwards, as the Arduino AVR core does; a NaN   *)
(*     prints as "nan".                                                    *)
(***************************************************************************)
EXTENDS Integers, Sequences, FiniteSets, TLC

\* ------------------------------------------------------------ bounds
\* real milliseconds modelled after Init
MaxUptime == 12000
\* smallest amount by which the timer advances millis between two loop() calls
TickStep == 2498
\* most milliseconds the timer may add between the two millis() calls of loopB
MaxIsrLag == 1
\* milliseconds the sensor reads and display update of one cycle of loopB take
CycleWork == 3
\* most milliseconds by which delay() oversleeps
MaxOversleep == 1

\* ------------------------------------------------------------ program constants
INTERVAL == 5000
DelayA == 5000
SetupDelayA == 100
SerialDelayB == 300
SplashDelayB == 1500
LOW == 0
HIGH == 1
\* one 16-bit limb of an unsigned long
Limb == 65536
\* floats in [512, 1024) are the multiples of 1 / F32Scale
F32Scale == 16384

\* ------------------------------------------------------------ unsigned long
U32(h, l) == [hi |-> h, lo |-> l]

Zero32 == U32(0, 0)

\* a + n modulo 2^32, for 0 <= n < Limb
Add32(a, n) ==
  LET s == a.lo + n
  IN  U32((a.hi + (s \div Limb)) % Limb, s % Limb)

\* a - b modulo 2^32
Sub32(a, b) ==
  IF a.lo >= b.lo
    THEN U32((a.hi - b.hi) % Limb, a.lo - b.lo)
    ELSE U32((a.hi - b.hi - 1) % Limb, a.lo + Limb - b.lo)

\* a >= n, for 0 <= n < Limb
Geq32(a, n) == a.hi > 0 \/ a.lo >= n

\* a / 1000 (65536 = 65 * 1000 + 536)
DivThousand(a) == a.hi * 65 + ((a.hi * 536 + a.lo) \div 1000)

\* ------------------------------------------------------------ floats and printing
NaN == [nan |-> TRUE, v |-> 0]

F(x) == [nan |-> FALSE, v |-> x]

isnan(x) == x.nan

Pow10(n) == IF n = 0 THEN 1 ELSE IF n = 1 THEN 10 ELSE 100

Num(i, f, n) == [kind |-> "num", ip |-> i, fr |-> f, nd |-> n]

NanText == [kind |-> "nan", ip |-> 0, fr |-> 0, nd |-> 0]

\* Serial.print(int)
PrintInt(i) == Num(i, 0, 0)

\* a DHT reading (tenths) printed with `digits` decimals, digits >= 1
PrintTenths(x, digits) ==
  IF isnan(x) THEN NanText
  ELSE Num(x.v \div 10, (x.v % 10) * Pow10(digits - 1), digits)

\* centimetres printed as metres with two decimals
PrintCenti(c) == Num(c \div 100, c % 100, 2)

\* the single-precision quotient pa / 100, round to nearest even,
\* in units of 1 / F32Scale hPa (51200 <= pa < 102400)
PaToHpa(pa) ==
  LET n == pa * F32Scale
      q == n \div 100
      r == n % 100
  IN  IF 2 * r > 100 \/ (2 * r = 100 /\ q % 2 = 1) THEN q + 1 ELSE q

\* a float m / F32Scale printed with `digits` decimals, rounded half up
PrintF32(m, digits) ==
  LET whole == m \div F32Scale
      part  == m % F32Scale
      sc    == (2 * part * Pow10(digits) + F32Scale) \div (2 * F32Scale)
  IN  IF sc = Pow10(digits) THEN Num(whole + 1, 0, digits)
                            ELSE Num(whole, sc, digits)

\* bmp.readAltitude(1013.25) in centimetres: 44330 * (1 - (p / 1013.25) ^ 0.1903)
readAltitude(pa) ==
  CASE pa = 101325 -> 0
    [] pa = 100000 -> 11090
    [] pa = 95005  -> 53999
    [] OTHER       -> ((101325 - pa) * 84) \div 10

\* ------------------------------------------------------------ inputs
TempReadings == {NaN, F(225)}

HumReadings == {NaN, F(483)}

RawPressures == {101325, 95005}

PinLevels == {LOW, HIGH}

AdcReadings == {312, 1023}

\* random(1, 10)
RandomDraws == 1..9

TickSteps == TickStep..(TickStep + 1)

\* ------------------------------------------------------------ lines and screens
Line(k, t, f) == [kind |-> k, text |-> t, fields |-> f]

NoReading == [h |-> F(0), t |-> F(0), pa |-> 0, pin |-> HIGH, adc |-> 0, rnd |-> 0]

Screen(s, b, h, p, r, a) ==
  [screen |-> s, big |-> b, hum |-> h, pres |-> p, rain |-> r, analog |-> a]

\* a text box that shows no number: "none", "title" (the splash text) or "err"
Box(k) == [kind |-> k, ip |-> 0, fr |-> 0, nd |-> 0]

BlankScreen == Screen("blank", Box("none"), Box("none"), Box("none"), "", 0)

SplashScreen == Screen("splash", Box("title"), Box("none"), Box("none"), "", 0)

VARIABLES
  variant, pc, bmpAttached, oledAttached, millis,
  bmpOK, temperature, humidity, pressure, altitude, rainValue, rainDigital, lastRead,
  temperature_c, humidity_perc, pressure_hpa,
  serial, written, display,
  uptime, cycles, sinceStart, gap, sinceRead, reading, dhtReads, history, checked

vars ==
  << variant, pc, bmpAttached, oledAttached, millis,
     bmpOK, temperature, humidity, pressure, altitude, rainValue, rainDigital, lastRead,
     temperature_c, humidity_perc, pressure_hpa,
     serial, written, display,
     uptime, cycles, sinceStart, gap, sinceRead, reading, dhtReads, history, checked >>

varsA == << temperature_c, humidity_perc, pressure_hpa >>

varsB ==
  << bmpOK, temperature, humidity, pressure, altitude, rainValue, rainDigital, lastRead >>

env == << variant, bmpAttached, oledAttached >>

\* what the last call of loopB saw: real ms since lastRead was set, and its decision
NoCheck == [elapsed |-> -1, fired |-> FALSE, wrapped |-> FALSE]

\* a < b as 32-bit values
Lt32(a, b) == a.hi < b.hi \/ (a.hi = b.hi /\ a.lo < b.lo)

\* ------------------------------------------------------------ the program
\* a bug: the check forgets lastRead (millis() >= INTERVAL)
IntervalElapsedSinceBoot(m, last) == Geq32(m, INTERVAL)

\* a bug: millis() >= lastRead + INTERVAL, compared without wraparound
IntervalElapsedNoWrap(m, last) ==
  LET s == last.lo + INTERVAL
      h == last.hi + (s \div Limb)
      l == s % Limb
  IN  m.hi > h \/ (m.hi = h /\ m.lo >= l)

\* millis() - lastRead >= INTERVAL, in unsigned long arithmetic
IntervalElapsed(m, last) == Geq32(Sub32(m, last), INTERVAL)

\* submodel of the globals at power-on: zero-initialised
Globals ==
  /\ bmpOK = FALSE
  /\ temperature = F(0) /\ humidity = F(0)
  /\ pressure = 0 /\ altitude = 0
  /\ rainValue = 0 /\ rainDigital = 0
  /\ lastRead = Zero32
  /\ temperature_c = F(0) /\ humidity_perc = F(0) /\ pressure_hpa = 0

Ghosts ==
  /\ uptime = 0 /\ cycles = 0 /\ sinceStart = -1 /\ gap = -1 /\ sinceRead = 0
  /\ reading = NoReading /\ dhtReads = [h |-> 0, t |-> 0]
  /\ history = <<"none", "none">> /\ checked = NoCheck

Init ==
  /\ variant \in {"A", "B"}
  /\ bmpAttached \in BOOLEAN
  /\ oledAttached \in BOOLEAN
  /\ pc = "setup"
  /\ millis = Zero32
  /\ Globals
  /\ serial = <<>> /\ written = 0
  /\ display = BlankScreen
  /\ Ghosts

\* time passing by d real milliseconds (0 <= d < Limb)
Advance(d) ==
  /\ uptime + d <= MaxUptime
  /\ uptime' = uptime + d
  /\ millis' = Add32(millis, d)

\* the timer interrupt advancing millis while the sketch spins: between two calls
\* of loopB, or inside while (1).  (loopA spends its time inside delay().)
Tick ==
  \E d \in TickSteps :
    /\ pc = "halted" \/ (pc = "loop" /\ variant = "B")
    /\ Advance(d)
    /\ sinceRead' = sinceRead + d
    /\ sinceStart' = IF sinceStart < 0 THEN sinceStart ELSE sinceStart + d
    /\ UNCHANGED << env, pc, varsA, varsB, serial, written, display,
                    cycles, gap, reading, dhtReads, history, checked >>

\* while (1);
Spin ==
  /\ pc = "halted"
  /\ UNCHANGED vars

\* ---------------------------------------------------------------- sketch A
BmpMissingLine == Line("text", "BMP280 Sensor not found. Check wiring!", <<>>)

BannerLines ==
  << Line("text", "SYSTEM_INITIALIZED", <<>>),
     Line("text", "Transmitting Data Format: T(C), H(%), P(hPa), R(mm_sim)", <<>>) >>

ErrorLine == Line("error", "SENSOR_ERROR: Failed to read from DHT sensor!", <<>>)

\* if (!bmp.begin()) { ...; while (1); }
SetupOutcomeA(bmpFound) == IF ~bmpFound THEN "halted" ELSE "loop"

setupA ==
  LET next == SetupOutcomeA(bmpAttached)
  IN  /\ variant = "A" /\ pc = "setup"
      /\ Advance(SetupDelayA)
      /\ pc' = next
      /\ serial' = IF next = "halted" THEN << BmpMissingLine >> ELSE BannerLines
      /\ written' = written + Len(serial')
      /\ sinceRead' = sinceRead + SetupDelayA
      /\ UNCHANGED << env, varsA, varsB, display, cycles, sinceStart, gap,
                      reading, dhtReads, history, checked >>

\* (rain_digital == LOW) ? random(1, 10) / 10.0 : 0.0, in tenths of a millimetre
rainfall_mm_sim(rain_digital, rnd) == IF rain_digital = LOW THEN rnd ELSE 0

\* a bug: an error flag that is never cleared
ReadFailedLatched(h, t) == isnan(h) \/ isnan(t) \/ history[2] = "error"

\* isnan(humidity_perc) || isnan(temperature_c)
ReadFailed(h, t) == isnan(h) \/ isnan(t)

\* a bug: String(x) without the precision prints two decimals
DataLineDefaultPrecision(t, h, p, r) ==
  Line("data", "",
       << << "T", PrintTenths(t, 2) >>, << "H", PrintTenths(h, 2) >>,
          << "P", PrintF32(p, 2) >>, << "R", PrintTenths(F(r), 2) >> >>)

\* "T=" + String(t, 1) + ",H=" + String(h, 1) + ",P=" + String(p, 1) + ",R=" + String(r, 1)
DataLine(t, h, p, r) ==
  Line("data", "",
       << << "T", PrintTenths(t, 1) >>, << "H", PrintTenths(h, 1) >>,
          << "P", PrintF32(p, 1) >>, << "R", PrintTenths(F(r), 1) >> >>)

loopA ==
  \E over \in 0..MaxOversleep, h \in HumReadings, t \in TempReadings,
     pa \in RawPressures, pin \in PinLevels :
    \E rnd \in IF pin = LOW THEN RandomDraws ELSE {0} :
      LET failed == ReadFailed(h, t)
          p      == PaToHpa(pa)
      IN  /\ variant = "A" /\ pc = "loop"
          /\ Advance(DelayA + over)
          /\ humidity_perc' = h
          /\ temperature_c' = t
          /\ pressure_hpa' = p
          /\ serial' = IF failed THEN << ErrorLine >>
                       ELSE << DataLine(t, h, p, rainfall_mm_sim(pin, rnd)) >>
          /\ written' = written + 1
          /\ cycles' = cycles + 1
          /\ gap' = IF sinceStart < 0 THEN -1 ELSE sinceStart + DelayA + over
          /\ sinceStart' = 0
          /\ sinceRead' = sinceRead + DelayA + over
          /\ reading' = [h |-> h, t |-> t, pa |-> pa, pin |-> pin, adc |-> 0, rnd |-> rnd]
          /\ dhtReads' = [h |-> 1, t |-> 1]
          /\ history' = << history[2], IF failed THEN "error" ELSE "data" >>
          /\ UNCHANGED << env, pc, varsB, display, checked >>

\* ---------------------------------------------------------------- sketch B
\* a bug: a missing barometric sensor halts the display sketch too
SetupOutcomeBStrict(bmpFound, oledFound) ==
  IF ~oledFound \/ ~bmpFound THEN "halted" ELSE "loop"

\* a bug: the failed display.begin is ignored
SetupOutcomeBIgnored(bmpFound, oledFound) == "loop"

\* if (!display.begin(...)) { while (1); }   (bmpOK is only recorded)
SetupOutcomeB(bmpFound, oledFound) == IF ~oledFound THEN "halted" ELSE "loop"

setupB ==
  LET next == SetupOutcomeB(bmpAttached, oledAttached)
      d    == IF next = "halted" THEN SerialDelayB ELSE SerialDelayB + SplashDelayB
  IN  /\ variant = "B" /\ pc = "setup"
      /\ Advance(d)
      /\ bmpOK' = bmpAttached
      /\ pc' = next
      /\ display' = IF next = "halted" THEN display ELSE SplashScreen
      /\ sinceRead' = sinceRead + d
      /\ UNCHANGED << env, varsA, temperature, humidity, pressure, altitude, rainValue,
                      rainDigital, lastRead, serial, written, cycles, sinceStart, gap,
                      reading, dhtReads, history, checked >>

\* a bug: the sensor is read without looking at bmpOK
BmpPressureUnchecked(ok, pa) == PaToHpa(IF ok THEN pa ELSE 101325)

\* if (bmpOK) pressure = bmp.readPressure() / 100.0; else pressure = 0;
BmpPressure(ok, pa) == IF ok THEN PaToHpa(pa) ELSE 0

\* if (bmpOK) altitude = bmp.readAltitude(1013.25); else altitude = 0;
BmpAltitude(ok, pa) == IF ok THEN readAltitude(pa) ELSE 0

\* a bug: the two labels swapped
RainTextSwapped(d) == IF d # 0 THEN "Wet" ELSE "Dry"

\* rainDigital ? "Dry" : "Wet"
RainText(d) == IF d # 0 THEN "Dry" ELSE "Wet"

\* if (temperature != -999) print(temperature, 1) + " C" else "ERR"
BigText(t) == IF ~isnan(t) /\ t.v = -9990 THEN Box("err") ELSE PrintTenths(t, 1)

\* updateDisplay()
updateDisplay(t, h, p, rd, rv) ==
  Screen("data", BigText(t), PrintTenths(h, 1), PrintF32(p, 0), RainText(rd), rv)

\* printJSON()
printJSON(ts, t, h, p, alt, rv, rd) ==
  Line("json", "",
       << << "timestamp", PrintInt(ts) >>,
          << "temperature", PrintTenths(t, 2) >>,
          << "humidity", PrintTenths(h, 2) >>,
          << "pressure", PrintF32(p, 2) >>,
          << "altitude", PrintCenti(alt) >>,
          << "rain_value", PrintInt(rv) >>,
          << "rain_digital", PrintInt(rd) >> >>)

\* readSensors(); updateDisplay(); printJSON();
Cycle ==
  \E lag \in 0..MaxIsrLag, h \in HumReadings, t \in TempReadings,
     pa \in (IF bmpOK THEN RawPressures ELSE {0}), pin \in PinLevels, adc \in AdcReadings :
    /\ Advance(lag + CycleWork)
    /\ lastRead' = Add32(millis, lag)
    /\ humidity' = h
    /\ temperature' = t
    /\ pressure' = BmpPressure(bmpOK, pa)
    /\ altitude' = BmpAltitude(bmpOK, pa)
    /\ rainValue' = adc
    /\ rainDigital' = pin
    /\ display' = updateDisplay(t, h, pressure', pin, adc)
    /\ serial' = << printJSON(DivThousand(millis'), t, h, pressure', altitude', adc, pin) >>
    /\ written' = written + 1
    /\ cycles' = cycles + 1
    /\ gap' = sinceStart
    /\ sinceStart' = lag + CycleWork
    /\ sinceRead' = CycleWork
    /\ reading' = [h |-> h, t |-> t, pa |-> pa, pin |-> pin, adc |-> adc, rnd |-> 0]
    /\ dhtReads' = [h |-> 1, t |-> 1]
    /\ history' = << history[2], "data" >>
    /\ UNCHANGED << env, pc, bmpOK, varsA >>

loopB ==
  /\ variant = "B" /\ pc = "loop"
  /\ checked' = [elapsed |-> sinceRead, fired |-> IntervalElapsed(millis, lastRead),
                 wrapped |-> Lt32(millis, lastRead)]
  /\ IF IntervalElapsed(millis, lastRead)
       THEN Cycle
       ELSE UNCHANGED << env, pc, millis, varsA, varsB, serial, written, display,
                         uptime, cycles, sinceStart, gap, sinceRead, reading, dhtReads,
                         history >>

Next == setupA \/ loopA \/ setupB \/ loopB \/ Tick \/ Spin

Spec == Init /\ [][Next]_vars

\* ---------------------------------------------------------------- long uptime
\* The display sketch after about 49.7 days: millis is `lead` ms short of 2^32
\* and the last cycle has just ended (lastRead was set CycleWork ms ago).
WrapLeads == {2500, 6000}

InitWrap ==
  \E lead \in WrapLeads :
    /\ variant = "B"
    /\ bmpAttached \in BOOLEAN
    /\ oledAttached = TRUE
    /\ pc = "loop"
    /\ millis = U32(Limb - 1, Limb - lead)
    /\ lastRead = Sub32(millis, U32(0, CycleWork))
    /\ bmpOK = bmpAttached
    /\ humidity = F(483) /\ temperature = F(225)
    /\ pressure = BmpPressure(bmpOK, 101325)
    /\ altitude = BmpAltitude(bmpOK, 101325)
    /\ rainValue = 312 /\ rainDigital = HIGH
    /\ temperature_c = F(0) /\ humidity_perc = F(0) /\ pressure_hpa = 0
    /\ display = updateDisplay(temperature, humidity, pressure, rainDigital, rainValue)
    /\ serial = << printJSON(DivThousand(millis), temperature, humidity, pressure,
                             altitude, rainValue, rainDigital) >>
    /\ written = 1
    /\ uptime = 0 /\ cycles = 1 /\ sinceStart = CycleWork /\ gap = -1
    /\ sinceRead = CycleWork
    /\ reading = [h |-> humidity, t |-> temperature, pa |-> IF bmpOK THEN 101325 ELSE 0,
                  pin |-> rainDigital, adc |-> rainValue, rnd |-> 0]
    /\ dhtReads = [h |-> 1, t |-> 1]
    /\ history = << "none", "data" >>
    /\ checked = NoCheck

NextWrap == loopB \/ Tick

SpecWrap == InitWrap /\ [][NextWrap]_vars

\* ---------------------------------------------------------------- observations
\* the printed value of field `key` of a line that has it
Field(line, key) ==
  line.fields[CHOOSE i \in 1..Len(line.fields) : line.fields[i][1] = key][2]

Keys(line) == [i \in 1..Len(line.fields) |-> line.fields[i][1]]

JsonKeys ==
  << "timestamp", "temperature", "humidity", "pressure", "altitude",
     "rain_value", "rain_digital" >>

\* a sample cycle has run and `serial` holds what it wrote
CycleRan == cycles > 0

DhtInvalid == isnan(reading.h) \/ isnan(reading.t)

IsRecord(line) == line.kind \in {"data", "json"}

\* a printed number in hundredths
Hundredths(n) == n.ip * 100 + n.fr * (IF n.nd = 2 THEN 1 ELSE IF n.nd = 1 THEN 10 ELSE 100)

Abs(x) == IF x < 0 THEN -x ELSE x

\* ---------------------------------------------------------------- claims

\* C1: in both sketches a cycle whose humidity or temperature reading is NaN
\* writes no data line (no T=.. line, no JSON object), only the error line.
C1_NoRecordOnInvalidRead ==
  (CycleRan /\ DhtInvalid) =>
     /\ \A i \in 1..Len(serial) : ~IsRecord(serial[i])
     /\ serial = << ErrorLine >>

\* C2: interval discipline: the starts of two consecutive sample cycles are at
\* least INTERVAL real milliseconds apart, in both sketches.
C2_IntervalDiscipline == gap >= 0 => gap >= INTERVAL

C2_Witness == variant = "B" /\ cycles >= 2 /\ gap = INTERVAL /\ checked.fired

\* C3: with the barometric sensor not detected at startup, every emitted sample
\* has pressure and altitude exactly zero whatever the other inputs are, and the
\* detection flag never changes after setup.
C3_ZeroWithoutBmp ==
  /\ [](( variant = "B" /\ pc # "setup" /\ ~bmpAttached ) =>
          /\ ~bmpOK
          /\ pressure = 0 /\ altitude = 0
          /\ CycleRan => /\ Len(serial) = 1
                         /\ Field(serial[1], "pressure") = Num(0, 0, 2)
                         /\ Field(serial[1], "altitude") = Num(0, 0, 2))
  /\ [][pc # "setup" => bmpOK' = bmpOK]_vars

C3_Witness ==
  /\ variant = "B" /\ ~bmpOK /\ cycles >= 2
  /\ reading.t = F(225) /\ reading.pin = LOW /\ reading.adc = 1023

\* C4 (as claimed): in both sketches a barometric sensor missing at setup does
\* not halt the device: it still enters the sample loop.
C4_BmpAbsenceNeverHalts ==
  ( ~bmpAttached /\ pc # "setup" /\ (variant = "B" => oledAttached) ) => pc = "loop"

\* C4 (amended): in the display sketch a missing barometric sensor is a graceful
\* degradation (the loop is entered, stays entered, and every cycle emits one
\* record with pressure and altitude zero); in the serial sketch it is fatal
\* (setup prints its diagnostic and halts, and no sample is ever emitted).
C4_GracefulOnlyInDisplaySketch ==
  /\ []( ( variant = "B" /\ ~bmpAttached /\ oledAttached /\ pc # "setup" ) =>
           /\ pc = "loop"
           /\ CycleRan => /\ Len(serial) = 1 /\ serial[1].kind = "json"
                          /\ Field(serial[1], "pressure") = Num(0, 0, 2)
                          /\ Field(serial[1], "altitude") = Num(0, 0, 2) )
  /\ []( ( variant = "A" /\ ~bmpAttached /\ pc # "setup" ) =>
           /\ pc = "halted" /\ cycles = 0 /\ serial = << BmpMissingLine >> )
  /\ [][pc = "loop" => pc' = "loop"]_vars

C4_Witness == variant = "B" /\ ~bmpAttached /\ pc = "loop" /\ cycles >= 2

\* C5: a failed display.begin is fatal: the device halts in setup, never runs a
\* sample cycle, never draws and never writes a line, and never leaves the halt.
C5_DisplayFailureHalts ==
  /\ []( ( variant = "B" /\ ~oledAttached /\ pc # "setup" ) =>
           /\ pc = "halted" /\ cycles = 0 /\ written = 0 /\ serial = <<>>
           /\ display = BlankScreen )
  /\ [][ pc = "halted" =>
           /\ pc' = "halted" /\ cycles' = cycles /\ written' = written
           /\ serial' = serial /\ display' = display ]_vars

C5_Witness ==
  variant = "B" /\ ~oledAttached /\ pc = "halted" /\ uptime >= SerialDelayB + INTERVAL

\* C6: wet is exactly LOW and dry exactly HIGH: the display's rain row shows
\* "Wet" iff the pin read LOW and "Dry" iff it read HIGH; the serial sketch's R
\* is non-zero iff the pin read LOW and 0.0 iff it read HIGH.
C6_WetIffLow ==
  CycleRan =>
    /\ variant = "B" =>
         /\ display.rain = "Wet" <=> reading.pin = LOW
         /\ display.rain = "Dry" <=> reading.pin = HIGH
    /\ ( variant = "A" /\ serial[1].kind = "data" ) =>
         /\ Field(serial[1], "R") # Num(0, 0, 1) <=> reading.pin = LOW
         /\ Field(serial[1], "R") = Num(0, 0, 1) <=> reading.pin = HIGH

C6_Witness ==
  /\ variant = "B" /\ cycles >= 2 /\ reading.pin = LOW /\ display.rain = "Wet"
  /\ history = << "data", "data" >>

\* C7 (as claimed): in both variants the emitted pressure is the raw pascal
\* reading divided by 100 and rounded to one decimal place (so within 0.05 hPa
\* of raw / 100): 101325 Pa gives P=1013.3 and a JSON pressure field 1013.3.
C7_OneDecimalInBothVariants ==
  ( CycleRan /\ reading.pa > 0 /\ IsRecord(serial[1]) ) =>
     LET P == Field(serial[1], IF variant = "A" THEN "P" ELSE "pressure")
     IN  /\ P.kind = "num" /\ P.nd = 1
         /\ Abs(Hundredths(P) - reading.pa) <= 5
         /\ reading.pa = 101325 => P = Num(1013, 3, 1)

\* C7 (amended): the serial sketch prints the single-precision quotient with
\* one decimal, within 0.05 hPa of raw / 100 (101325 Pa -> 1013.3); the display
\* sketch prints it with two decimals, equal to raw / 100 (101325 Pa -> 1013.25).
C7_PrecisionPerVariant ==
  ( CycleRan /\ reading.pa > 0 /\ IsRecord(serial[1]) ) =>
     /\ variant = "A" =>
          LET P == Field(serial[1], "P")
          IN  /\ P.kind = "num" /\ P.nd = 1
              /\ Abs(Hundredths(P) - reading.pa) <= 5
              /\ reading.pa = 101325 => P = Num(1013, 3, 1)
     /\ variant = "B" =>
          LET P == Field(serial[1], "pressure")
          IN  /\ P.kind = "num" /\ P.nd = 2
              /\ Hundredths(P) = reading.pa
              /\ reading.pa = 101325 => P = Num(1013, 25, 2)

C7_Witness ==
  /\ CycleRan /\ reading.pa = 101325 /\ IsRecord(serial[1])
  /\ variant = "B" /\ Field(serial[1], "pressure") = Num(1013, 25, 2)

\* C8: in the serial sketch a failed DHT read is transient: each cycle reads
\* each quantity once, a failed cycle writes only the error line, and every
\* cycle with valid readings writes a normal data line, whatever came before.
C8_FailedReadIsTransient ==
  ( variant = "A" /\ CycleRan ) =>
     /\ dhtReads = [h |-> 1, t |-> 1]
     /\ Len(serial) = 1
     /\ DhtInvalid => serial[1] = ErrorLine
     /\ ~DhtInvalid =>
          /\ serial[1].kind = "data"
          /\ Field(serial[1], "T") = Num(reading.t.v \div 10, reading.t.v % 10, 1)
          /\ Field(serial[1], "H") = Num(reading.h.v \div 10, reading.h.v % 10, 1)

C8_Witness ==
  variant = "A" /\ history = << "error", "data" >> /\ serial[1].kind = "data"

\* C9: every sample cycle writes exactly one line: in the serial sketch the data
\* line or the error line; in the display sketch one complete JSON object with
\* the keys timestamp, temperature, humidity, pressure, altitude, rain_value,
\* rain_digital in that order (every value a JSON number).
C9_OneRecordPerCycle ==
  CycleRan =>
    /\ Len(serial) = 1
    /\ variant = "A" => serial[1].kind \in {"data", "error"}
    /\ variant = "B" =>
         /\ serial[1].kind = "json"
         /\ Keys(serial[1]) = JsonKeys
         /\ \A i \in 1..Len(serial[1].fields) : serial[1].fields[i][2].kind = "num"

\* C10: the check millis() - lastRead >= INTERVAL is right across the wrap of
\* the 32-bit clock: a call of loop() runs a cycle iff at least INTERVAL real
\* milliseconds have passed since lastRead was set.
C10_WrapSafeInterval ==
  checked.elapsed >= 0 => ( checked.fired <=> checked.elapsed >= INTERVAL )

C10_Witness == checked.wrapped /\ checked.fired /\ checked.elapsed = INTERVAL

====
